---- MODULE Spec2Model ----
(***************************************************************************)
(* Model of onnx_pytorch's generator registry (CodeGeneratorLoader) and of *)
(* the tensor-aliasing decision of OpCodeGenerator.gen_input_output_string.*)
(*                                                                         *)
(* Python's Optional[T] is modelled as a sequence of length at most one:   *)
(* None is <<>> and a present value x is <<x>>.                            *)
(***************************************************************************)
EXTENDS Integers, Sequences, FiniteSets, TLC

VARIABLES
  domain2opset,   \* CodeGeneratorLoader.domain2opset
  last,           \* the last call on the loader: arguments, outcome, table before
  graph,          \* the nodes of the graph being translated, in graph order
  rename_helper,  \* the usage ledger: tensor_name_counter, tensor_name_mapping
  pos,            \* index of the next node to generate
  gen_last,       \* the last gen_input_output_string call and what it returned
  helper_call,    \* the last call of a generator helper: arguments and outcome
  objects         \* the generator objects constructed so far, by identity

loader_vars == <<domain2opset, last>>
gen_vars == <<graph, rename_helper, pos, gen_last>>
vars == <<domain2opset, last, graph, rename_helper, pos, gen_last, helper_call,
          objects>>

None == <<>>
Some(x) == <<x>>

(***************************************************************************)
(* Bounds of the model.                                                    *)
(***************************************************************************)
\* total number of packs the table may hold (caps register / load)
MaxPacks == 3
\* number of nodes of a graph
MaxNodes == 2
\* most inputs a node has
MaxInputs == 2
\* most (label, name) targets of a check_in_init call
MaxTargets == 2
\* most generator objects constructed in one run
MaxObjects == 2
\* most attributes a node carries
MaxAttrs == 2
\* highest rank of the tensor a reduction reads
MaxRank == 2

\* the table with no domain
EmptyTable == [d \in {} |-> <<>>]

(***************************************************************************)
(* Inputs the operations are called with.                                  *)
(***************************************************************************)
DomainArgs == {None, Some(""), Some("ai.onnx"), Some("custom")}
\* operator names register is called with ("Relu" is the builtin operator)
RegOpNames == {"Foo"}
\* operator names get and drop are called with
OpNames == {"Relu", "Foo"}
\* every operator name a table can hold ("B" comes from a loaded class)
AllOpNames == OpNames \cup {"B"}
OpNameArgs == {None} \cup {Some(o) : o \in OpNames}
QueryVersions == {None} \cup {Some(v) : v \in 0 .. 14}
\* the arguments the get action is called with
GetDomainArgs == {None, Some(""), Some("custom")}
GetVersions == {None, Some(11)}

\* CodeGeneratorPack(version, module, class_name)
CodeGeneratorPack(version, module, class_name) ==
  [version |-> version, module |-> module, class_name |-> class_name]

RegPacks == {CodeGeneratorPack(9, "m", "G9"), CodeGeneratorPack(13, "m", "G13"),
             CodeGeneratorPack(9, "m", "H9")}

(***************************************************************************)
(* Helpers on the table.                                                   *)
(***************************************************************************)
\* a register that normalises only an absent domain
register_domain_none_only(domain) ==
  IF domain = None THEN "ai.onnx" ELSE domain[1]

\* register_code_generator: "if domain is None or domain == '': domain = 'ai.onnx'"
register_domain(domain) ==
  IF domain = None \/ domain = Some("") THEN "ai.onnx" ELSE domain[1]

\* get: "if domain is None or domain == '': domain = 'ai.onnx'"
get_domain(domain) ==
  IF domain = None \/ domain = Some("") THEN "ai.onnx" ELSE domain[1]

\* Insert pack p into a list that is stably sorted by version, descending:
\* after every element whose version is >= p.version (stability).
RECURSIVE InsertDesc(_, _)
InsertDesc(s, p) ==
  IF s = <<>> THEN <<p>>
  ELSE IF Head(s).version >= p.version
       THEN <<Head(s)>> \o InsertDesc(Tail(s), p)
       ELSE <<p>> \o s

\* list.sort(key=version, reverse=True): a stable sort, descending
RECURSIVE SortDesc(_)
SortDesc(s) ==
  IF s = <<>> THEN <<>>
  ELSE InsertDesc(SortDesc(SubSeq(s, 1, Len(s) - 1)), s[Len(s)])

\* d[k] = v on a Python dict
Put(f, k, v) == [x \in (DOMAIN f) \cup {k} |-> IF x = k THEN v ELSE f[x]]
\* del d[k] on a Python dict
Del(f, k) == [x \in (DOMAIN f) \ {k} |-> f[x]]

RECURSIVE SumLens(_, _)
SumLens(f, keys) ==
  IF keys = {} THEN 0
  ELSE LET k == CHOOSE x \in keys : TRUE
       IN Cardinality(DOMAIN f[k]) + SumLens(f, keys \ {k})

RECURSIVE SumPacks(_, _)
SumPacks(ops, keys) ==
  IF keys = {} THEN 0
  ELSE LET k == CHOOSE x \in keys : TRUE
       IN Len(ops[k]) + SumPacks(ops, keys \ {k})

RECURSIVE SumPacksAll(_, _)
SumPacksAll(table, keys) ==
  IF keys = {} THEN 0
  ELSE LET k == CHOOSE x \in keys : TRUE
       IN SumPacks(table[k], DOMAIN table[k]) + SumPacksAll(table, keys \ {k})

\* number of packs held by the table (used to bound the model)
PackCount(table) == SumPacksAll(table, DOMAIN table)

\* a __len__ that counts packs instead of (domain, operator) entries
len_counting_packs(table) == PackCount(table)

\* CodeGeneratorLoader.__len__: sum of len(ops) over the domains
__len__(table) == SumLens(table, DOMAIN table)

(***************************************************************************)
(* CodeGeneratorLoader.register_code_generator                             *)
(***************************************************************************)
\* a sort that forgets reverse=True
RECURSIVE InsertAsc(_, _)
InsertAsc(s, p) ==
  IF s = <<>> THEN <<p>>
  ELSE IF Head(s).version <= p.version
       THEN <<Head(s)>> \o InsertAsc(Tail(s), p)
       ELSE <<p>> \o s

RECURSIVE sort_packs_ascending(_)
sort_packs_ascending(s) ==
  IF s = <<>> THEN <<>>
  ELSE InsertAsc(sort_packs_ascending(SubSeq(s, 1, Len(s) - 1)), s[Len(s)])

\* a registration that appends and does not sort
sort_packs_unsorted(s) == s

\* a descending sort that puts a pack before the earlier ones of its version
RECURSIVE InsertDescNewFirst(_, _)
InsertDescNewFirst(s, p) ==
  IF s = <<>> THEN <<p>>
  ELSE IF Head(s).version > p.version
       THEN <<Head(s)>> \o InsertDescNewFirst(Tail(s), p)
       ELSE <<p>> \o s

RECURSIVE sort_packs_newest_first(_)
sort_packs_newest_first(s) ==
  IF s = <<>> THEN <<>>
  ELSE InsertDescNewFirst(sort_packs_newest_first(SubSeq(s, 1, Len(s) - 1)), s[Len(s)])

\* self.domain2opset[domain][op_name].sort(key=lambda x: x.version, reverse=True)
sort_packs(s) == SortDesc(s)

register_code_generator(table, domain, op_name, pack) ==
  LET d  == register_domain(domain)
      t1 == IF d \notin DOMAIN table THEN Put(table, d, EmptyTable) ELSE table
      t2 == IF op_name \notin DOMAIN t1[d]
            THEN Put(t1, d, Put(t1[d], op_name, <<>>)) ELSE t1
      t3 == Put(t2, d, Put(t2[d], op_name, Append(t2[d][op_name], pack)))
  IN Put(t3, d, Put(t3[d], op_name, sort_packs(t3[d][op_name])))

(***************************************************************************)
(* CodeGeneratorLoader._register_builtin_code_generators                   *)
(***************************************************************************)
\* the catalogue of builtin operator modules (one <name>OpCodeGenerator each)
BuiltinOps == {"Relu"}
\* CodeGeneratorPack(5, module, clazz_name)
BuiltinVersion == 5

RECURSIVE RegisterBuiltins(_, _)
RegisterBuiltins(table, ops) ==
  IF ops = {} THEN table
  ELSE LET m == CHOOSE x \in ops : TRUE
       IN RegisterBuiltins(
            register_code_generator(table, None, m,
              CodeGeneratorPack(BuiltinVersion, m, m \o "OpCodeGenerator")),
            ops \ {m})

\* CodeGeneratorLoader.__init__
LoaderInit == RegisterBuiltins(EmptyTable, BuiltinOps)

(***************************************************************************)
(* CodeGeneratorPack.new and CodeGeneratorLoader.get                       *)
(***************************************************************************)
\* clazz = getattr(self.module, self.class_name); return clazz()
new(pack) == [module |-> pack.module, clazz |-> pack.class_name]

\* a scan that asks for a strictly older pack
RECURSIVE ScanPacks_strict(_, _)
ScanPacks_strict(list, version) ==
  IF list = <<>> THEN None
  ELSE IF version > Head(list).version THEN Some(Head(list))
       ELSE ScanPacks_strict(Tail(list), version)

\* "for pack in list: if version >= pack.version: return pack"
RECURSIVE ScanPacks(_, _)
ScanPacks(list, version) ==
  IF list = <<>> THEN None
  ELSE IF version >= Head(list).version THEN Some(Head(list))
       ELSE ScanPacks(Tail(list), version)

\* The pack whose new() get returns (None for "return None"), and the
\* exception the call raises, if any (list[0] on an empty list).
get(table, domain, op_name, version) ==
  LET d == get_domain(domain)
  IN IF d \in DOMAIN table
     THEN IF op_name \in DOMAIN table[d]
          THEN IF version = None
               THEN IF table[d][op_name] = <<>>
                    THEN [pack |-> None, raised |-> "IndexError"]
                    ELSE [pack |-> Some(table[d][op_name][1]), raised |-> "none"]
               ELSE [pack |-> ScanPacks(table[d][op_name], version[1]),
                     raised |-> "none"]
          ELSE [pack |-> None, raised |-> "none"]
     ELSE [pack |-> None, raised |-> "none"]

(***************************************************************************)
(* CodeGeneratorLoader.drop                                                *)
(***************************************************************************)
\* a drop without the final "if len(...) == 0: del" of lines 111-112
drop_no_cleanup(table, domain, op_name) ==
  IF domain # None /\ domain[1] \in DOMAIN table
  THEN LET d == domain[1]
       IN IF op_name = None THEN [table |-> Del(table, d), raised |-> "none"]
          ELSE IF op_name[1] \in DOMAIN table[d]
               THEN [table |-> Put(table, d, Del(table[d], op_name[1])),
                     raised |-> "none"]
               ELSE [table |-> table, raised |-> "none"]
  ELSE [table |-> table, raised |-> "none"]

\* a drop that maps an absent or empty domain to the default one first
drop_normalising(table, domain, op_name) ==
  LET d == register_domain(domain)
  IN IF d \in DOMAIN table
     THEN LET t1 == IF op_name = None THEN Del(table, d)
                    ELSE IF op_name[1] \in DOMAIN table[d]
                         THEN Put(table, d, Del(table[d], op_name[1]))
                         ELSE table
          IN IF d \notin DOMAIN t1
             THEN [table |-> t1, raised |-> "KeyError"]
             ELSE IF Cardinality(DOMAIN t1[d]) = 0
                  THEN [table |-> Del(t1, d), raised |-> "none"]
                  ELSE [table |-> t1, raised |-> "none"]
     ELSE [table |-> table, raised |-> "none"]

\* the table the call leaves behind and the exception it raises, if any
drop(table, domain, op_name) ==
  IF domain # None /\ domain[1] \in DOMAIN table
  THEN LET d  == domain[1]
           t1 == IF op_name = None THEN Del(table, d)
                 ELSE IF op_name[1] \in DOMAIN table[d]
                      THEN Put(table, d, Del(table[d], op_name[1]))
                      ELSE table
       IN \* len(self.domain2opset[domain]): KeyError when the key is gone
          IF d \notin DOMAIN t1
          THEN [table |-> t1, raised |-> "KeyError"]
          ELSE IF Cardinality(DOMAIN t1[d]) = 0
               THEN [table |-> Del(t1, d), raised |-> "none"]
               ELSE [table |-> t1, raised |-> "none"]
  ELSE [table |-> table, raised |-> "none"]

\* a reset that goes back to the table of a new loader
reset_to_builtins(table) == LoaderInit

\* CodeGeneratorLoader.reset
reset(table) == EmptyTable

(***************************************************************************)
(* CodeGeneratorLoader.register_from_py_file                               *)
(***************************************************************************)
\* A class found in a loaded module: its member name, whether it is a
\* subclass of CustomOpCodeGenerator, and what getattr finds for the three
\* metadata fields (None when the lookup falls through to the default).
Clazz(name, custom, dom, opn, ver) ==
  [name |-> name, custom |-> custom,
   OP_DOMAIN |-> dom, OP_NAME |-> opn, OP_VERSION |-> ver]

\* getattr(clazz, field, default)
GetAttr(value, default) == IF value = None THEN default ELSE value[1]

\* A path argument: what os.path says of it and, for a loadable file, the
\* classes inspect.getmembers yields (sorted by member name).
Path(exists, isfile, py, module, members) ==
  [exists |-> exists, isfile |-> isfile, py |-> py,
   module |-> module, members |-> members]

BaseClazz == Clazz("CustomOpCodeGenerator", TRUE, Some("custom"), None, Some(1))
HelperClazz == Clazz("Helper", FALSE, None, None, None)

PathMissing == Path(FALSE, FALSE, TRUE, "gone", <<>>)
PathDir     == Path(TRUE, FALSE, TRUE, "dir", <<>>)
PathNotPy   == Path(TRUE, TRUE, FALSE, "notes", <<>>)
\* class A: __OP_NAME__ = "Foo", __OP_VERSION__ = 2; class B: no metadata
PathAB      == Path(TRUE, TRUE, TRUE, "ab",
                 << Clazz("A", TRUE, None, Some("Foo"), Some(2)),
                    Clazz("B", TRUE, None, None, None),
                    BaseClazz, HelperClazz >>)
\* class C: __OP_DOMAIN__ = "", __OP_NAME__ = "Relu", __OP_VERSION__ = 5
PathC       == Path(TRUE, TRUE, TRUE, "c",
                 << Clazz("C", TRUE, Some(""), Some("Relu"), Some(5)),
                    BaseClazz >>)
\* a module with no custom generator class
PathNone    == Path(TRUE, TRUE, TRUE, "none", << BaseClazz, HelperClazz >>)

PathArgs == {PathMissing, PathDir, PathNotPy, PathAB, PathC, PathNone}

\* a filter that forgets to exclude the base class by name
Skipped_keeps_base(clazz) == ~clazz.custom

\* "clazz_name == 'CustomOpCodeGenerator' or not issubclass(...): continue"
Skipped(clazz) == clazz.name = "CustomOpCodeGenerator" \/ ~clazz.custom

\* the pack built for a class of the module
PackOf(module, clazz) ==
  CodeGeneratorPack(GetAttr(clazz.OP_VERSION, 1), module, clazz.name)

\* the loop over the members: the table and the count after it
RECURSIVE LoadMembers(_, _, _, _)
LoadMembers(table, module, members, count) ==
  IF members = <<>> THEN [table |-> table, count |-> count]
  ELSE LET clazz == Head(members)
       IN IF Skipped(clazz)
          THEN LoadMembers(table, module, Tail(members), count)
          ELSE LoadMembers(
                 register_code_generator(table,
                   Some(GetAttr(clazz.OP_DOMAIN, "custom")),
                   GetAttr(clazz.OP_NAME, clazz.name),
                   PackOf(module, clazz)),
                 module, Tail(members), count + 1)

\* validation without the extension assert
PathValid_no_ext(path) == path.exists /\ path.isfile

\* the asserts of lines 64-66
PathValid(path) == path.exists /\ path.isfile /\ path.py

register_from_py_file(table, path) ==
  IF ~PathValid(path)
  THEN [table |-> table, raised |-> "AssertionError", count |-> None]
  ELSE LET r == LoadMembers(table, path.module, path.members, 0)
       IN [table |-> r.table, raised |-> "none", count |-> Some(r.count)]

\* number of classes of a path that the loop registers
RECURSIVE Qualifying(_)
Qualifying(members) ==
  IF members = <<>> THEN 0
  ELSE (IF Skipped(Head(members)) THEN 0 ELSE 1) + Qualifying(Tail(members))

(***************************************************************************)
(* Graphs.  A node is [input, output]: two sequences of tensor names.      *)
(* Node k produces OutNames[k]; the first node may have a second output    *)
(* that nothing consumes.  A node reads graph inputs, initializers and the *)
(* outputs of earlier nodes (graph order is a topological order).          *)
(***************************************************************************)
GraphInputs == {"x"}
InitializerNames == {"w"}
OutNames == <<"a", "b", "c", "d">>
SecondOutput == "a2"

Tensors ==
  GraphInputs \cup InitializerNames \cup {SecondOutput}
    \cup {OutNames[k] : k \in 1 .. MaxNodes}

SeqsUpTo(S, n) == UNION {[1 .. m -> S] : m \in 0 .. n}

NodesAt(k) ==
  {[input |-> ins, output |-> outs] :
     ins \in SeqsUpTo(GraphInputs \cup InitializerNames
                        \cup {OutNames[j] : j \in 1 .. k - 1}, MaxInputs),
     outs \in {<<OutNames[k]>>}
                \cup (IF k = 1 THEN {<<OutNames[k], SecondOutput>>} ELSE {})}

RECURSIVE GraphsOfLen(_)
GraphsOfLen(n) ==
  IF n = 0 THEN {<<>>}
  ELSE {Append(g, nd) : g \in GraphsOfLen(n - 1), nd \in NodesAt(n)}

\* the graph's declared outputs: the first output of its last node
GraphOutputs(g) == IF g = <<>> THEN {} ELSE {g[Len(g)].output[1]}

\* number of positions of sequence s that hold t
Occurs(s, t) == Cardinality({i \in DOMAIN s : s[i] = t})

RECURSIVE NodeRefs(_, _, _)
NodeRefs(g, k, t) ==
  IF k = 0 THEN 0
  ELSE Occurs(g[k].input, t) + Occurs(g[k].output, t) + NodeRefs(g, k - 1, t)

(***************************************************************************)
(* The usage ledger (rename_helper).  It is built by the model generator   *)
(* before any node is generated: one count per reference to a tensor name  *)
(* as a producer (graph input, initializer, node output) or as a consumer  *)
(* (node input, graph output).                                             *)
(***************************************************************************)
CountReferences(g, t) ==
  NodeRefs(g, Len(g), t)
    + (IF t \in GraphInputs THEN 1 ELSE 0)
    + (IF t \in InitializerNames THEN 1 ELSE 0)
    + (IF t \in GraphOutputs(g) THEN 1 ELSE 0)

NewRenameHelper(g) ==
  [tensor_name_counter |-> [t \in Tensors |-> CountReferences(g, t)],
   tensor_name_mapping |-> [t \in {} |-> ""]]

\* the canonical name a tensor gets when nothing has remapped it
OwnName(t) == "t_" \o t

\* rename_helper.get_tensor_name
get_tensor_name(helper, tensor_name) ==
  IF tensor_name \in DOMAIN helper.tensor_name_mapping
  THEN helper.tensor_name_mapping[tensor_name]
  ELSE OwnName(tensor_name)

(***************************************************************************)
(* OpCodeGenerator.gen_input_output_string                                 *)
(***************************************************************************)
\* "input_num or len(node.input)": None and 0 fall through to the length
NumOr(num, seq) == IF num = None \/ num = Some(0) THEN Len(seq) ELSE num[1]

\* formatter.format(name): "{}" or "self._vars[\"{}\"]"
Format(tensor_name, initializers, name) ==
  IF tensor_name \in initializers
  THEN "self._vars[\"" \o name \o "\"]" ELSE name

\* an alias rule that forgets "node.input[0] not in initializers"
InplaceCondition_any_input(node, initializers, helper, tensor_inplace) ==
  /\ tensor_inplace
  /\ Len(node.input) > 0
  /\ helper.tensor_name_counter[node.output[1]] = 2
  /\ helper.tensor_name_counter[node.input[1]] = 2

\* an alias rule that forgets the usage count of the input
InplaceCondition_no_input_count(node, initializers, helper, tensor_inplace) ==
  /\ tensor_inplace
  /\ Len(node.input) > 0
  /\ node.input[1] \notin initializers
  /\ helper.tensor_name_counter[node.output[1]] = 2

\* the condition of lines 100-106 for the first output (idx == 1, i == 0)
InplaceCondition(node, initializers, helper, tensor_inplace) ==
  /\ tensor_inplace
  /\ Len(node.input) > 0
  /\ node.input[1] \notin initializers
  /\ helper.tensor_name_counter[node.output[1]] = 2
  /\ helper.tensor_name_counter[node.input[1]] = 2

\* inputs_str: the loop of idx == 0
InputRefs(node, initializers, helper, n) ==
  [i \in 1 .. n |->
     Format(node.input[i], initializers, get_tensor_name(helper, node.input[i]))]

\* a remapping to the input's own name, whatever the input was remapped to
AfterFirstOutput_own_name(node, initializers, helper, tensor_inplace) ==
  IF InplaceCondition(node, initializers, helper, tensor_inplace)
  THEN [helper EXCEPT !.tensor_name_mapping =
          Put(helper.tensor_name_mapping, node.output[1], OwnName(node.input[1]))]
  ELSE helper

\* a remapping that also takes one use off the count of the input
AfterFirstOutput_consuming(node, initializers, helper, tensor_inplace) ==
  IF InplaceCondition(node, initializers, helper, tensor_inplace)
  THEN [helper EXCEPT
          !.tensor_name_mapping =
             Put(helper.tensor_name_mapping, node.output[1],
                 get_tensor_name(helper, node.input[1])),
          !.tensor_name_counter[node.input[1]] = 1]
  ELSE helper

\* the ledger after the first output has been handled
AfterFirstOutput(node, initializers, helper, tensor_inplace) ==
  IF InplaceCondition(node, initializers, helper, tensor_inplace)
  THEN [helper EXCEPT !.tensor_name_mapping =
          Put(helper.tensor_name_mapping, node.output[1],
              get_tensor_name(helper, node.input[1]))]
  ELSE helper

\* outputs_str: the loop of idx == 1, against the ledger h left by i == 0
OutputRefs(node, initializers, helper, h, tensor_inplace, n) ==
  [i \in 1 .. n |->
     LET tensor_name ==
           IF i = 1 /\ InplaceCondition(node, initializers, helper, tensor_inplace)
           THEN node.input[1] ELSE node.output[i]
     IN Format(tensor_name, initializers, get_tensor_name(h, tensor_name))]

\* what the call returns, the ledger it leaves and the exception it raises
gen_input_output_string(node, initializers, helper, tensor_inplace, input_num, output_num) ==
  LET inum == NumOr(input_num, node.input)
      onum == NumOr(output_num, node.output)
  IN IF inum > Len(node.input)
     THEN \* f[i] past the end of node.input, before any output is handled
          [inputs_str |-> <<>>, outputs_str |-> <<>>,
           rename_helper |-> helper, raised |-> "IndexError"]
     ELSE IF onum = 0
     THEN [inputs_str |-> InputRefs(node, initializers, helper, inum),
           outputs_str |-> <<>>, rename_helper |-> helper, raised |-> "none"]
     ELSE IF Len(node.output) = 0
     THEN [inputs_str |-> <<>>, outputs_str |-> <<>>,
           rename_helper |-> helper, raised |-> "IndexError"]
     ELSE LET h == AfterFirstOutput(node, initializers, helper, tensor_inplace)
          IN IF onum > Len(node.output)
             THEN [inputs_str |-> <<>>, outputs_str |-> <<>>,
                   rename_helper |-> h, raised |-> "IndexError"]
             ELSE [inputs_str |-> InputRefs(node, initializers, helper, inum),
                   outputs_str |-> OutputRefs(node, initializers, helper, h,
                                              tensor_inplace, onum),
                   rename_helper |-> h, raised |-> "none"]

(***************************************************************************)
(* OpCodeGenerator.check_in_init                                           *)
(***************************************************************************)
\* initializers.get(n, None)
DictGet(dict, n) == IF n \in DOMAIN dict THEN Some(dict[n]) ELSE None

\* a check that stops at the first missing name
RECURSIVE Lacks_first_only(_, _)
Lacks_first_only(targets, initializers) ==
  IF targets = <<>> THEN <<>>
  ELSE IF DictGet(initializers, Head(targets)[2]) = None
       THEN <<Head(targets)[2]>>
       ELSE Lacks_first_only(Tail(targets), initializers)

\* lacks: the names n of the targets, in order, with initializers.get(n) None
RECURSIVE Lacks(_, _)
Lacks(targets, initializers) ==
  IF targets = <<>> THEN <<>>
  ELSE (IF DictGet(initializers, Head(targets)[2]) = None
        THEN <<Head(targets)[2]>> ELSE <<>>)
       \o Lacks(Tail(targets), initializers)

\* rs, or the exception with the names its message lists
check_in_init(targets, initializers) ==
  LET lacks == Lacks(targets, initializers)
      rs    == [i \in DOMAIN targets |-> DictGet(initializers, targets[i][2])]
  IN IF lacks # <<>>
     THEN [raised |-> "Exception", lacks |-> lacks, result |-> None]
     ELSE [raised |-> "none", lacks |-> <<>>,
           result |-> Some([i \in DOMAIN rs |-> rs[i][1]])]

(***************************************************************************)
(* OpCodeGenerator.get_attr_value_dict                                     *)
(***************************************************************************)
\* Python values of attributes: an int or a list of ints
PyInt(n) == [kind |-> "int", i |-> n, ints |-> <<>>]
PyInts(ns) == [kind |-> "ints", i |-> 0, ints |-> ns]

\* an AttributeProto: its name, its type and the field of that type
AttributeProto(name, type, i, ints) ==
  [name |-> name, type |-> type, i |-> i, ints |-> ints]

\* onnx.helper.get_attribute_value: the field the attribute's type names
get_attribute_value(a) ==
  IF a.type = "INT" THEN PyInt(a.i) ELSE PyInts(a.ints)

\* d[k] = v
DictSet(d, k, v) ==
  [x \in DOMAIN d \cup {k} |-> IF x = k THEN v ELSE d[x]]

\* the loop over node.attribute, each assignment on top of the earlier ones
RECURSIVE NodeAttrDict(_, _)
NodeAttrDict(attribute, acc) ==
  IF attribute = <<>> THEN acc
  ELSE NodeAttrDict(Tail(attribute),
         DictSet(acc, Head(attribute).name, get_attribute_value(Head(attribute))))

\* a merge in which a default wins over the node's value
DictOfItems_first_wins(first, second) ==
  [k \in DOMAIN first \cup DOMAIN second |->
     IF k \in DOMAIN first THEN first[k] ELSE second[k]]

\* dict(list(first.items()) + list(second.items())): a later item wins
DictOfItems(first, second) ==
  [k \in DOMAIN first \cup DOMAIN second |->
     IF k \in DOMAIN second THEN second[k] ELSE first[k]]

EmptyDict == [k \in {} |-> None]

\* the merged dict, and self.attr_default as the call leaves it
get_attr_value_dict(attr_default, node) ==
  [result       |-> DictOfItems(attr_default, NodeAttrDict(node.attribute, EmptyDict)),
   attr_default |-> attr_default]

(***************************************************************************)
(* ReduceOpCodeGenerator._get_dim                                          *)
(***************************************************************************)
\* a one-dimensional integer TensorProto
TensorProto(data) == [dims |-> <<Len(data)>>, int64_data |-> data]

\* list(to_array(t)): the elements of the tensor
to_array_list(t) == PyInts(t.int64_data)

\* list(range(d))
RangeList(d) == PyInts([i \in 1..d |-> i - 1])

\* a choice of axes that reads the second input before the attribute
_get_dim_input_first(attr_value_dict, d, node, initializers) ==
  IF Len(node.input) > 1
  THEN IF DictGet(initializers, node.input[2]) = None
       THEN [dim |-> None, raised |-> "AssertionError"]
       ELSE [dim |-> Some(to_array_list(initializers[node.input[2]])),
             raised |-> "none"]
  ELSE IF "axes" \in DOMAIN attr_value_dict
       THEN [dim |-> Some(attr_value_dict["axes"]), raised |-> "none"]
       ELSE [dim |-> Some(RangeList(d)), raised |-> "none"]

_get_dim(attr_value_dict, d, node, initializers) ==
  IF "axes" \in DOMAIN attr_value_dict
  THEN [dim |-> Some(attr_value_dict["axes"]), raised |-> "none"]
  ELSE IF Len(node.input) > 1
       THEN IF DictGet(initializers, node.input[2]) = None
            THEN [dim |-> None, raised |-> "AssertionError"]
            ELSE [dim |-> Some(to_array_list(initializers[node.input[2]])),
                  raised |-> "none"]
       ELSE [dim |-> Some(RangeList(d)), raised |-> "none"]

(***************************************************************************)
(* Inputs of the helper calls.                                             *)
(***************************************************************************)
ConstNames == {"w", "v", "u"}
ConstValues == {"W1", "W2"}
TargetLabels == {"axes", "shape"}

\* every dict with keys in K and values in V
DictsOver(K, V) == UNION {[D -> V] : D \in SUBSET K}

AttrNames == {"axes", "keepdims", "alpha"}
AttrProtos ==
  {AttributeProto(n, "INT", i, <<>>) : n \in AttrNames, i \in {0, 1}}
    \cup {AttributeProto(n, "INTS", 0, <<1>>) : n \in AttrNames}
DefaultValues == {PyInt(1), PyInts(<<0>>)}

\* attribute lists of a valid node: no name twice
NodeAttributes ==
  {as \in SeqsUpTo(AttrProtos, MaxAttrs) :
     \A i, j \in DOMAIN as : i # j => as[i].name # as[j].name}

ReduceAttrDicts == DictsOver({"axes", "keepdims"}, {PyInt(1), PyInts(<<1>>)})
ReduceInputs == {<<"x">>} \cup {<<"x", n>> : n \in {"w", "v"}}
ReduceInitializers ==
  DictsOver({"w", "v"}, {TensorProto(<<0>>), TensorProto(<<0, 1>>)})

(***************************************************************************)
(* The calls: one action per public operation of the loader.               *)
(***************************************************************************)
Call(op, domain, op_name, version, pack, path, raised, count, instance) ==
  [op |-> op, domain |-> domain, op_name |-> op_name, version |-> version,
   pack |-> pack, path |-> path, raised |-> raised, count |-> count,
   instance |-> instance, pre |-> domain2opset]

\* the loader as constructed: CodeGeneratorLoader.__init__
InitLoader ==
  /\ domain2opset = LoaderInit
  /\ last = [op |-> "init", domain |-> None, op_name |-> None,
             version |-> None, pack |-> None, path |-> None,
             raised |-> "none", count |-> None, instance |-> None,
             pre |-> EmptyTable]

NoGenCall(helper) ==
  [node |-> 0, tensor_inplace |-> FALSE, inputs_str |-> <<>>,
   outputs_str |-> <<>>, raised |-> "none", pre |-> helper]

\* a graph loaded, its ledger counted, no node generated yet
InitGraph(g) ==
  /\ graph = g
  /\ rename_helper = NewRenameHelper(g)
  /\ pos = 1
  /\ gen_last = NoGenCall(NewRenameHelper(g))

\* no generator helper called yet
InitHelpers == helper_call = [fn |-> "none"]

\* no generator constructed yet
InitObjects ==
  objects = [heap |-> <<>>, returned |-> <<>>, call |-> [op |-> "none"]]

Init == InitLoader /\ InitGraph(<<>>) /\ InitHelpers /\ InitObjects

RegisterCall ==
  \E domain \in DomainArgs, op_name \in RegOpNames, pack \in RegPacks :
    /\ PackCount(domain2opset) < MaxPacks
    /\ domain2opset' = register_code_generator(domain2opset, domain, op_name, pack)
    /\ last' = Call("register", domain, Some(op_name), None, Some(pack), None,
                    "none", None, None)
    /\ UNCHANGED <<gen_vars, helper_call, objects>>

LoadCall ==
  \E path \in PathArgs :
    LET r == register_from_py_file(domain2opset, path)
    IN /\ PackCount(domain2opset) + Qualifying(path.members) <= MaxPacks
       /\ domain2opset' = r.table
       /\ last' = Call("load", None, None, None, None, Some(path),
                       r.raised, r.count, None)
       /\ UNCHANGED <<gen_vars, helper_call, objects>>

GetCall ==
  \E domain \in GetDomainArgs, op_name \in OpNames, version \in GetVersions :
    LET r == get(domain2opset, domain, op_name, version)
    IN /\ domain2opset' = domain2opset
       /\ last' = Call("get", domain, Some(op_name), version, r.pack, None,
                       r.raised, None,
                       IF r.pack = None THEN None ELSE Some(new(r.pack[1])))
       /\ UNCHANGED <<gen_vars, helper_call, objects>>

DropCall ==
  \E domain \in DomainArgs, op_name \in OpNameArgs :
    LET r == drop(domain2opset, domain, op_name)
    IN /\ domain2opset' = r.table
       /\ last' = Call("drop", domain, op_name, None, None, None, r.raised,
                       None, None)
       /\ UNCHANGED <<gen_vars, helper_call, objects>>

ResetCall ==
  /\ domain2opset' = reset(domain2opset)
  /\ last' = Call("reset", None, None, None, None, None, "none", None, None)
  /\ UNCHANGED <<gen_vars, helper_call, objects>>

LenCall ==
  /\ domain2opset' = domain2opset
  /\ last' = Call("len", None, None, None, None, None, "none",
                  Some(__len__(domain2opset)), None)
  /\ UNCHANGED <<gen_vars, helper_call, objects>>

Next ==
  \/ RegisterCall
  \/ LoadCall
  \/ GetCall
  \/ DropCall
  \/ ResetCall
  \/ LenCall

Spec == Init /\ [][Next]_vars

(***************************************************************************)
(* Generation: the nodes of one graph are generated in graph order against *)
(* one ledger, each by one gen_input_output_string call.                   *)
(***************************************************************************)
GenCall ==
  \E tensor_inplace \in BOOLEAN :
    LET r == gen_input_output_string(graph[pos], InitializerNames, rename_helper,
                                     tensor_inplace, None, None)
    IN /\ pos <= Len(graph)
       /\ rename_helper' = r.rename_helper
       /\ gen_last' = [node |-> pos, tensor_inplace |-> tensor_inplace,
                       inputs_str |-> r.inputs_str, outputs_str |-> r.outputs_str,
                       raised |-> r.raised, pre |-> rename_helper]
       /\ pos' = pos + 1
       /\ UNCHANGED <<graph, loader_vars, helper_call, objects>>

InitGen ==
  InitLoader /\ InitHelpers /\ InitObjects /\ \E g \in GraphsOfLen(MaxNodes) : InitGraph(g)

NextGen == GenCall

SpecGen == InitGen /\ [][NextGen]_vars

(***************************************************************************)
(* Lookups with the identity of what they return.  An object is its index  *)
(* in the heap; the table is one a registration or a load has left.        *)
(***************************************************************************)
\* a lookup that keeps one object per class and hands it out again
Allocate_cached(heap, pack) ==
  IF \E i \in DOMAIN heap : heap[i].class = new(pack)
  THEN CHOOSE i \in DOMAIN heap : heap[i].class = new(pack)
  ELSE Len(heap) + 1

\* clazz(): the identity of the object the constructor call makes
Allocate(heap, pack) == Len(heap) + 1

\* the object as OpCodeGenerator.__init__ leaves it
NewObject(pack) == [class |-> new(pack), rename_helper |-> None]

LookupTables ==
  {LoaderInit}
    \cup {register_code_generator(LoaderInit, d, o, p) :
            d \in DomainArgs, o \in RegOpNames, p \in RegPacks}
    \cup {register_from_py_file(LoaderInit, path).table :
            path \in {PathAB, PathC}}

HelperTags == {"h1"}

InitLookup ==
  /\ domain2opset \in LookupTables
  /\ last = [op |-> "none", pre |-> domain2opset]
  /\ InitGraph(<<>>) /\ InitHelpers /\ InitObjects

LookupCall ==
  \E domain \in GetDomainArgs, op_name \in OpNames, version \in GetVersions :
    LET r    == get(domain2opset, domain, op_name, version)
        heap == objects.heap
    IN /\ Len(heap) < MaxObjects
       /\ IF r.pack = None
          THEN objects' = [objects EXCEPT !.call =
                 [op |-> "get", id |-> None, pre |-> heap]]
          ELSE LET id == Allocate(heap, r.pack[1])
               IN objects' =
                    [heap |-> IF id \in DOMAIN heap THEN heap
                              ELSE Append(heap, NewObject(r.pack[1])),
                     returned |-> Append(objects.returned, id),
                     call |-> [op |-> "get", id |-> Some(id), pre |-> heap,
                               pack |-> r.pack[1]]]
       /\ UNCHANGED <<loader_vars, gen_vars, helper_call>>

\* the owner of a generator object stores its ledger on it
WriteCall ==
  \E id \in DOMAIN objects.heap, h \in HelperTags :
    /\ objects' = [objects EXCEPT
                     !.heap[id].rename_helper = Some(h),
                     !.call = [op |-> "write", id |-> Some(id),
                               pre |-> objects.heap]]
    /\ UNCHANGED <<loader_vars, gen_vars, helper_call>>

NextLookup ==
  \/ LookupCall
  \/ WriteCall

SpecLookup == InitLookup /\ [][NextLookup]_vars

(***************************************************************************)
(* The helpers of a generator, each called on arguments of its own.  They   *)
(* read nothing but their arguments, so a behaviour holds one call.        *)
(***************************************************************************)
CheckInInitCall ==
  \E targets \in SeqsUpTo(TargetLabels \X ConstNames, MaxTargets),
     initializers \in DictsOver(ConstNames, ConstValues) :
    LET r == check_in_init(targets, initializers)
    IN /\ helper_call.fn = "none"
       /\ helper_call' = [fn |-> "check_in_init", targets |-> targets,
                          initializers |-> initializers, raised |-> r.raised,
                          lacks |-> r.lacks, result |-> r.result]
       /\ UNCHANGED <<loader_vars, gen_vars, objects>>

GetAttrValueDictCall ==
  \E attr_default \in DictsOver(AttrNames, DefaultValues),
     attribute \in NodeAttributes :
    LET r == get_attr_value_dict(attr_default, [attribute |-> attribute])
    IN /\ helper_call.fn = "none"
       /\ helper_call' = [fn |-> "get_attr_value_dict",
                          attr_default |-> attr_default,
                          attribute |-> attribute, result |-> r.result,
                          attr_default_after |-> r.attr_default]
       /\ UNCHANGED <<loader_vars, gen_vars, objects>>

GetDimCall ==
  \E attr_value_dict \in ReduceAttrDicts, d \in 0..MaxRank,
     input \in ReduceInputs, initializers \in ReduceInitializers :
    LET r == _get_dim(attr_value_dict, d, [input |-> input], initializers)
    IN /\ helper_call.fn = "none"
       /\ helper_call' = [fn |-> "_get_dim",
                          attr_value_dict |-> attr_value_dict, d |-> d,
                          input |-> input, initializers |-> initializers,
                          dim |-> r.dim, raised |-> r.raised]
       /\ UNCHANGED <<loader_vars, gen_vars, objects>>

NextHelpers ==
  \/ CheckInInitCall
  \/ GetAttrValueDictCall
  \/ GetDimCall

SpecHelpers == Init /\ [][NextHelpers]_vars

(***************************************************************************)
(* Vocabulary of the properties.                                           *)
(***************************************************************************)
\* the domain label an argument stands for
CanonDomain(D) == IF D \in {None, Some("")} THEN "ai.onnx" ELSE D[1]

HasEntry(table, d, o) == d \in DOMAIN table /\ o \in DOMAIN table[d]

PacksOf(table, d, o) ==
  IF HasEntry(table, d, o)
  THEN {table[d][o][i] : i \in DOMAIN table[d][o]} ELSE {}

VersionsOf(table, d, o) == {p.version : p \in PacksOf(table, d, o)}

Max(S) == CHOOSE x \in S : \A y \in S : y <= x

Entries(table) == UNION {{<<d, o>> : o \in DOMAIN table[d]} : d \in DOMAIN table}

\* how many times pack p occurs in the list of (d, o)
Occurrences(table, d, o, p) ==
  IF HasEntry(table, d, o)
  THEN Cardinality({i \in DOMAIN table[d][o] : table[d][o][i] = p}) ELSE 0

AllDomains == {"", "ai.onnx", "custom"}

(***************************************************************************)
(* C1: lookup(D, O, v) with v specified returns the pack of the greatest   *)
(* registered version under (D, O) that is <= v, and NotFound exactly when *)
(* (D, O) has no entry or every registered version exceeds v.              *)
(***************************************************************************)
C1_ClosestFromBelow ==
  \A D \in DomainArgs, O \in AllOpNames, v \in 0 .. 14 :
    LET r  == get(domain2opset, D, O, Some(v))
        ok == {x \in VersionsOf(domain2opset, CanonDomain(D), O) : x <= v}
    IN /\ r.raised = "none"
       /\ (r.pack = None) <=> (ok = {})
       /\ r.pack # None =>
            /\ r.pack[1] \in PacksOf(domain2opset, CanonDomain(D), O)
            /\ r.pack[1].version = Max(ok)

\* versions 9 and 13 registered, lookup at 11 answered with the version-9 pack
C1_Witness ==
  /\ last.op = "get" /\ last.version = Some(11)
  /\ {9, 13} \subseteq VersionsOf(domain2opset, CanonDomain(last.domain), last.op_name[1])
  /\ last.pack # None /\ last.pack[1].version = 9

(***************************************************************************)
(* C2: remove(D) with the operator omitted, D present: the call completes  *)
(* without error, D is absent afterwards, every lookup under D is NotFound *)
(* and every other domain is unchanged.                                    *)
(***************************************************************************)
DropsWholeDomain ==
  /\ last.op = "drop" /\ last.op_name = None
  /\ last.domain # None /\ last.domain[1] \in DOMAIN last.pre

C2_DropDomainCompletes ==
  DropsWholeDomain =>
    /\ last.raised = "none"
    /\ last.domain[1] \notin DOMAIN domain2opset
    /\ \A O \in AllOpNames, v \in QueryVersions :
         get(domain2opset, last.domain, O, v).pack = None
    /\ \A d \in (DOMAIN last.pre) \ {last.domain[1]} :
         d \in DOMAIN domain2opset /\ domain2opset[d] = last.pre[d]

(***************************************************************************)
(* C3: the table never holds a domain with an empty operator map nor an    *)
(* entry with an empty pack list; removing the only operator of a domain   *)
(* leaves the domain absent.                                               *)
(***************************************************************************)
DropsOnlyOperator ==
  /\ last.op = "drop" /\ last.op_name # None
  /\ last.domain # None /\ last.domain[1] \in DOMAIN last.pre
  /\ DOMAIN last.pre[last.domain[1]] = {last.op_name[1]}

C3_NoEmptyBuckets ==
  /\ \A d \in DOMAIN domain2opset :
       /\ DOMAIN domain2opset[d] # {}
       /\ \A o \in DOMAIN domain2opset[d] : domain2opset[d][o] # <<>>
  /\ DropsOnlyOperator => last.domain[1] \notin DOMAIN domain2opset

C3_Witness == DropsOnlyOperator /\ last.raised = "none"

(***************************************************************************)
(* C6: count() is the number of (domain, operator) entries, not of packs:  *)
(* a register under a new pair adds 1, under an existing pair adds 0.      *)
(***************************************************************************)
RegisteredPair == <<CanonDomain(last.domain), last.op_name[1]>>

C6_CountsEntries ==
  /\ __len__(domain2opset) = Cardinality(Entries(domain2opset))
  /\ last.op = "len" => last.count = Some(Cardinality(Entries(last.pre)))
  /\ last.op = "register" =>
       __len__(domain2opset) =
         __len__(last.pre) + (IF RegisteredPair \in Entries(last.pre) THEN 0 ELSE 1)

\* a second version registered under an existing pair: count() stays put
C6_Witness ==
  /\ last.op = "register"
  /\ RegisteredPair \in Entries(last.pre)
  /\ last.pack[1].version \notin
       VersionsOf(last.pre, RegisteredPair[1], RegisteredPair[2])
  /\ __len__(domain2opset) = __len__(last.pre)
  /\ PackCount(domain2opset) > __len__(domain2opset)

(***************************************************************************)
(* C7: register and lookup normalise an empty or absent domain to the same *)
(* default domain; the empty string is never a key of the table.           *)
(***************************************************************************)
RegisteredWithoutDomain ==
  last.op = "register" /\ last.domain \in {None, Some("")}

C7_DomainNormalised ==
  /\ "" \notin DOMAIN domain2opset
  /\ RegisteredWithoutDomain =>
       /\ last.pack[1] \in PacksOf(domain2opset, "ai.onnx", last.op_name[1])
       /\ \A D \in {None, Some(""), Some("ai.onnx")} :
            LET r == get(domain2opset, D, last.op_name[1], Some(last.pack[1].version))
            IN r.pack # None /\ r.pack[1].version = last.pack[1].version
       /\ \A D \in {None, Some(""), Some("ai.onnx")}, v \in QueryVersions :
            get(domain2opset, D, last.op_name[1], v)
              = get(domain2opset, Some("ai.onnx"), last.op_name[1], v)

\* registered with "", then looked up: the entry did not exist before
C7_Witness ==
  /\ RegisteredWithoutDomain /\ last.domain = Some("")
  /\ ~HasEntry(last.pre, "ai.onnx", last.op_name[1])
  /\ get(domain2opset, None, last.op_name[1], None).pack = last.pack

(***************************************************************************)
(* C8: lookup(D, O) with the version unspecified, for any (D, O) that has  *)
(* an entry, never fails and returns the pack of the maximum version       *)
(* registered under (D, O).                                                *)
(***************************************************************************)
C8_HighestVersion ==
  \A D \in DomainArgs, O \in AllOpNames :
    HasEntry(domain2opset, CanonDomain(D), O) =>
      LET r == get(domain2opset, D, O, None)
      IN /\ r.raised = "none"
         /\ r.pack # None
         /\ r.pack[1] \in PacksOf(domain2opset, CanonDomain(D), O)
         /\ r.pack[1].version = Max(VersionsOf(domain2opset, CanonDomain(D), O))

\* the lower version was registered last and the lookup still answers 13
C8_Witness ==
  /\ last.op = "get" /\ last.version = None
  /\ Cardinality(VersionsOf(domain2opset, CanonDomain(last.domain), last.op_name[1])) >= 2
  /\ last.instance # None /\ last.pack[1].version = 13

(***************************************************************************)
(* C9: load_from_source fails at once when the path does not exist, is not *)
(* a regular file or lacks the source extension, and the table is then     *)
(* exactly as before the call.                                             *)
(***************************************************************************)
LoadOfBadPath ==
  /\ last.op = "load"
  /\ (~last.path[1].exists \/ ~last.path[1].isfile \/ ~last.path[1].py)

C9_BadPathLeavesTable ==
  LoadOfBadPath =>
    /\ last.raised = "AssertionError"
    /\ last.count = None
    /\ domain2opset = last.pre

\* a regular file with the wrong extension, refused with packs in the table
C9_Witness ==
  /\ LoadOfBadPath
  /\ last.path[1].exists /\ last.path[1].isfile
  /\ last.raised # "none"
  /\ PackCount(last.pre) > 0

(***************************************************************************)
(* C10: load_from_source registers exactly one pack per class satisfying   *)
(* the custom contract (the base declaration excluded), under the class's  *)
(* domain (default "custom"), operator name (default the class name) and   *)
(* version (default 1), and returns the number registered.                 *)
(***************************************************************************)
LoadOfGoodPath ==
  /\ last.op = "load"
  /\ last.path[1].exists /\ last.path[1].isfile /\ last.path[1].py

\* the classes of the unit that are custom generators, the base excluded
CustomClasses(path) ==
  {i \in DOMAIN path.members :
     path.members[i].custom /\ path.members[i].name # "CustomOpCodeGenerator"}

ClassDomain(c) ==
  IF c.OP_DOMAIN = None THEN "custom" ELSE CanonDomain(c.OP_DOMAIN)
ClassOpName(c) == IF c.OP_NAME = None THEN c.name ELSE c.OP_NAME[1]
ClassVersion(c) == IF c.OP_VERSION = None THEN 1 ELSE c.OP_VERSION[1]
ClassPack(path, c) ==
  [version |-> ClassVersion(c), module |-> path.module, class_name |-> c.name]

AllPacks ==
  RegPacks
    \cup UNION {{ClassPack(q, q.members[i]) : i \in DOMAIN q.members} : q \in PathArgs}
    \cup UNION {UNION {PacksOf(last.pre, d, o) \cup PacksOf(domain2opset, d, o)
                         : o \in AllOpNames} : d \in AllDomains}

C10_LoadRegistersEachClass ==
  LoadOfGoodPath =>
    LET path == last.path[1]
        cs   == CustomClasses(path)
    IN /\ last.raised = "none"
       /\ last.count = Some(Cardinality(cs))
       /\ PackCount(domain2opset) = PackCount(last.pre) + Cardinality(cs)
       /\ \A i \in cs :
            ClassPack(path, path.members[i])
              \in PacksOf(domain2opset, ClassDomain(path.members[i]),
                          ClassOpName(path.members[i]))
       /\ \A d \in AllDomains, o \in AllOpNames, p \in AllPacks :
            Occurrences(domain2opset, d, o, p)
              = Occurrences(last.pre, d, o, p)
                + Cardinality({i \in cs :
                    /\ ClassDomain(path.members[i]) = d
                    /\ ClassOpName(path.members[i]) = o
                    /\ ClassPack(path, path.members[i]) = p})
       /\ (path = PathAB /\ "custom" \notin DOMAIN last.pre) =>
            /\ last.count = Some(2)
            /\ new(get(domain2opset, Some("custom"), "Foo", Some(2)).pack[1])
                 = [module |-> "ab", clazz |-> "A"]
            /\ new(get(domain2opset, Some("custom"), "B", None).pack[1])
                 = [module |-> "ab", clazz |-> "B"]

\* the unit with class A ("Foo", version 2) and class B (no metadata)
C10_Witness ==
  /\ LoadOfGoodPath /\ last.path[1] = PathAB
  /\ "custom" \notin DOMAIN last.pre
  /\ last.count = Some(2)

(***************************************************************************)
(* Vocabulary of the aliasing properties.                                  *)
(***************************************************************************)
Range(s) == {s[i] : i \in DOMAIN s}

\* node n has been generated and its first output was remapped
Aliased(n) ==
  /\ n < pos
  /\ graph[n].output[1] \in DOMAIN rename_helper.tensor_name_mapping

\* the last call remapped the first output of its node
AliasedNow ==
  /\ gen_last.node >= 1
  /\ graph[gen_last.node].output[1] \in DOMAIN rename_helper.tensor_name_mapping
  /\ graph[gen_last.node].output[1] \notin DOMAIN gen_last.pre.tensor_name_mapping

\* tensors whose value exists before node n runs
ProducedBefore(n) ==
  GraphInputs \cup InitializerNames
    \cup UNION {Range(graph[k].output) : k \in 1 .. n - 1}

(***************************************************************************)
(* C4: the first output of a node is aliased to the first input if and     *)
(* only if aliasing is enabled for the call, the node has an input, the    *)
(* first input is no initializer, and the first output and the first input *)
(* both have usage count exactly 2; otherwise the output keeps its own     *)
(* canonical name.                                                         *)
(***************************************************************************)
C4_AliasIffAllFive ==
  gen_last.node >= 1 =>
    LET node == graph[gen_last.node]
        pre  == gen_last.pre
        out0 == node.output[1]
        all5 == /\ gen_last.tensor_inplace
                /\ Len(node.input) >= 1
                /\ node.input[1] \notin InitializerNames
                /\ pre.tensor_name_counter[out0] = 2
                /\ pre.tensor_name_counter[node.input[1]] = 2
    IN /\ AliasedNow <=> all5
       /\ AliasedNow =>
            /\ rename_helper.tensor_name_mapping[out0]
                 = get_tensor_name(pre, node.input[1])
            /\ gen_last.outputs_str[1] = get_tensor_name(pre, node.input[1])
            /\ get_tensor_name(rename_helper, out0)
                 = get_tensor_name(rename_helper, node.input[1])
       /\ ~AliasedNow =>
            /\ rename_helper = pre
            /\ get_tensor_name(rename_helper, out0) = OwnName(out0)
            /\ gen_last.outputs_str[1] = OwnName(out0)

\* a call for which all five conditions held and the output was remapped
C4_Witness ==
  /\ AliasedNow
  /\ gen_last.tensor_inplace
  /\ gen_last.outputs_str[1] = OwnName(graph[gen_last.node].input[1])

AbsentTargets ==
  {helper_call.targets[i][2] : i \in DOMAIN helper_call.targets}
    \ DOMAIN helper_call.initializers

C11_ConstantOperands ==
  helper_call.fn = "check_in_init" =>
    /\ (helper_call.raised # "none") <=> (AbsentTargets # {})
    /\ helper_call.raised # "none" =>
         /\ Range(helper_call.lacks) = AbsentTargets
         /\ helper_call.result = None
    /\ helper_call.raised = "none" =>
         /\ helper_call.result # None
         /\ Len(helper_call.result[1]) = Len(helper_call.targets)
         /\ \A i \in DOMAIN helper_call.targets :
              helper_call.result[1][i]
                = helper_call.initializers[helper_call.targets[i][2]]

\* two names requested, the first present and the second absent
C11_Witness ==
  /\ helper_call.fn = "check_in_init"
  /\ Len(helper_call.targets) = 2
  /\ helper_call.targets[1][2] \in DOMAIN helper_call.initializers
  /\ helper_call.targets[2][2] \notin DOMAIN helper_call.initializers
  /\ helper_call.raised = "Exception"
  /\ helper_call.lacks = <<helper_call.targets[2][2]>>

(***************************************************************************)
(* C12: every successful lookup constructs a fresh generator object: no    *)
(* two lookups return the same object, the object returned is as its       *)
(* constructor leaves it, and what is written on one object shows on no    *)
(* other.                                                                  *)
(***************************************************************************)
C12_FreshInstance ==
  /\ \A i, j \in DOMAIN objects.returned :
       i # j => objects.returned[i] # objects.returned[j]
  /\ (objects.call.op = "get" /\ objects.call.id # None) =>
       /\ objects.call.id[1] \notin DOMAIN objects.call.pre
       /\ objects.heap[objects.call.id[1]] = NewObject(objects.call.pack)
       /\ \A k \in DOMAIN objects.call.pre :
            objects.heap[k] = objects.call.pre[k]
  /\ objects.call.op = "write" =>
       \A k \in DOMAIN objects.heap :
         k # objects.call.id[1] => objects.heap[k] = objects.call.pre[k]

\* a second lookup of a class whose first object has been written to
C12_Witness ==
  /\ objects.call.op = "get"
  /\ objects.call.id = Some(2)
  /\ objects.heap[1].class = objects.heap[2].class
  /\ objects.heap[1].rename_helper # None
  /\ objects.heap[2].rename_helper = None

(***************************************************************************)
(* C13: merged_attributes(node) is the defaults overridden key by key by   *)
(* the node's attributes: a node without attributes gets the defaults;     *)
(* every attribute of the node has the node's value, default or not; a     *)
(* default the node does not set keeps its value; the defaults map is left *)
(* as it was.                                                              *)
(***************************************************************************)
NodeAttrNames ==
  {helper_call.attribute[i].name : i \in DOMAIN helper_call.attribute}

C13_MergedAttributes ==
  helper_call.fn = "get_attr_value_dict" =>
    /\ DOMAIN helper_call.result = DOMAIN helper_call.attr_default \cup NodeAttrNames
    /\ helper_call.attribute = <<>> =>
         helper_call.result = helper_call.attr_default
    /\ \A i \in DOMAIN helper_call.attribute :
         helper_call.result[helper_call.attribute[i].name]
           = get_attribute_value(helper_call.attribute[i])
    /\ \A k \in DOMAIN helper_call.attr_default \ NodeAttrNames :
         helper_call.result[k] = helper_call.attr_default[k]
    /\ helper_call.attr_default_after = helper_call.attr_default

\* the node overrides one default with another value, sets an attribute
\* that has no default, and leaves one default alone
C13_Witness ==
  /\ helper_call.fn = "get_attr_value_dict"
  /\ DOMAIN helper_call.attr_default = {"axes", "keepdims"}
  /\ NodeAttrNames = {"keepdims", "alpha"}
  /\ \E i \in DOMAIN helper_call.attribute :
       /\ helper_call.attribute[i].name = "keepdims"
       /\ get_attribute_value(helper_call.attribute[i])
            # helper_call.attr_default["keepdims"]
  /\ helper_call.result["axes"] = helper_call.attr_default["axes"]

(***************************************************************************)
(* C17: the axes of a reduction are the "axes" attribute verbatim when the *)
(* node has one, with or without a second input; otherwise, with a second  *)
(* input, the constant value of that input, failing when it is no          *)
(* initializer; otherwise the full range 0..rank-1.                        *)
(***************************************************************************)
C17_ReduceAxes ==
  helper_call.fn = "_get_dim" =>
    IF "axes" \in DOMAIN helper_call.attr_value_dict
    THEN /\ helper_call.raised = "none"
         /\ helper_call.dim = Some(helper_call.attr_value_dict["axes"])
    ELSE IF Len(helper_call.input) > 1
         THEN IF helper_call.input[2] \in DOMAIN helper_call.initializers
              THEN /\ helper_call.raised = "none"
                   /\ helper_call.dim # None
                   /\ helper_call.dim[1].ints
                        = helper_call.initializers[helper_call.input[2]].int64_data
              ELSE /\ helper_call.raised # "none"
                   /\ helper_call.dim = None
         ELSE /\ helper_call.raised = "none"
              /\ helper_call.dim # None
              /\ Len(helper_call.dim[1].ints) = helper_call.d
              /\ \A i \in 1..helper_call.d : helper_call.dim[1].ints[i] = i - 1

\* an attribute and a constant second input that disagree: the attribute wins
C17_Witness ==
  /\ helper_call.fn = "_get_dim"
  /\ "axes" \in DOMAIN helper_call.attr_value_dict
  /\ Len(helper_call.input) > 1
  /\ helper_call.input[2] \in DOMAIN helper_call.initializers
  /\ helper_call.attr_value_dict["axes"].ints
       # helper_call.initializers[helper_call.input[2]].int64_data
  /\ helper_call.dim = Some(helper_call.attr_value_dict["axes"])

(***************************************************************************)
(* C14: reset() clears the whole table from any reachable state: count()   *)
(* is 0 and every lookup, of a builtin operator too, is NotFound, and      *)
(* stays so until a register or a load.                                    *)
(***************************************************************************)
AllNotFound(table) ==
  \A D \in DomainArgs, O \in AllOpNames, v \in QueryVersions :
    get(table, D, O, v) = [pack |-> None, raised |-> "none"]

C14_ResetClears ==
  /\ last.op = "reset" =>
       /\ domain2opset = EmptyTable
       /\ __len__(domain2opset) = 0
       /\ AllNotFound(domain2opset)
  /\ (last.pre = EmptyTable /\ last.op \in {"get", "drop", "len", "reset"}) =>
       /\ domain2opset = EmptyTable
       /\ __len__(domain2opset) = 0
       /\ AllNotFound(domain2opset)

\* a reset of a table that held the builtin operator and a registered one
C14_Witness ==
  /\ last.op = "reset"
  /\ HasEntry(last.pre, "ai.onnx", "Relu")
  /\ get(last.pre, None, "Relu", None).pack # None
  /\ Cardinality(Entries(last.pre)) >= 2
  /\ get(domain2opset, None, "Relu", None).pack = None

(***************************************************************************)
(* C15: in every reachable state every (domain, operator) pack list is     *)
(* sorted by version, non-increasing; a register adds exactly one pack to  *)
(* the list of its target and leaves every other entry as it was.          *)
(***************************************************************************)
SortedDescending(list) ==
  \A i \in 1..(Len(list) - 1) : list[i].version >= list[i + 1].version

RemoveAt(list, i) == SubSeq(list, 1, i - 1) \o SubSeq(list, i + 1, Len(list))

ListOf(table, e) == IF HasEntry(table, e[1], e[2]) THEN table[e[1]][e[2]] ELSE <<>>

C15_SortedLists ==
  /\ \A e \in Entries(domain2opset) : SortedDescending(ListOf(domain2opset, e))
  /\ last.op = "register" =>
       /\ \E i \in DOMAIN ListOf(domain2opset, RegisteredPair) :
            /\ ListOf(domain2opset, RegisteredPair)[i] = last.pack[1]
            /\ RemoveAt(ListOf(domain2opset, RegisteredPair), i)
                 = ListOf(last.pre, RegisteredPair)
       /\ Entries(domain2opset) = Entries(last.pre) \cup {RegisteredPair}
       /\ \A e \in Entries(last.pre) \ {RegisteredPair} :
            ListOf(domain2opset, e) = ListOf(last.pre, e)

\* the higher version registered after the lower one, next to another entry
C15_Witness ==
  /\ last.op = "register"
  /\ ListOf(last.pre, RegisteredPair) # <<>>
  /\ ListOf(domain2opset, RegisteredPair)[1] = last.pack[1]
  /\ last.pack[1].version > ListOf(last.pre, RegisteredPair)[1].version
  /\ Entries(last.pre) \ {RegisteredPair} # {}

(***************************************************************************)
(* C18: among packs of one version under one (domain, operator) a lookup   *)
(* returns the one registered first: a register or a load that adds a pack *)
(* of a version already present changes the result of no lookup.           *)
(***************************************************************************)
C18_FirstRegisteredWins ==
  last.op \in {"register", "load"} =>
    \A d \in AllDomains, O \in AllOpNames :
      (/\ HasEntry(last.pre, d, O)
       /\ VersionsOf(domain2opset, d, O) = VersionsOf(last.pre, d, O)) =>
        \A v \in QueryVersions :
          get(domain2opset, Some(d), O, v) = get(last.pre, Some(d), O, v)

\* a second pack of version 9 registered: the lookup still returns the first
C18_Witness ==
  /\ last.op = "register"
  /\ last.pack[1].version \in VersionsOf(last.pre, RegisteredPair[1], RegisteredPair[2])
  /\ last.pack[1] \notin PacksOf(last.pre, RegisteredPair[1], RegisteredPair[2])
  /\ get(domain2opset, last.domain, last.op_name[1], Some(last.pack[1].version)).pack
       # last.pack
  /\ get(domain2opset, last.domain, last.op_name[1], Some(last.pack[1].version))
       = get(last.pre, last.domain, last.op_name[1], Some(last.pack[1].version))

(***************************************************************************)
(* C19: remove does not normalise its domain and is a silent no-op on      *)
(* anything absent: remove("", O) and remove(None, O) leave the table as   *)
(* it was even when O was registered without a domain (O stays under the   *)
(* default domain and is still found); remove(D, O) with D absent, or with *)
(* D present and O absent under D, leaves the table as it was and raises   *)
(* nothing.                                                                *)
(***************************************************************************)
DropOfAbsent ==
  /\ last.op = "drop"
  /\ \/ last.domain \in {None, Some("")}
     \/ last.domain[1] \notin DOMAIN last.pre
     \/ (last.op_name # None /\ last.op_name[1] \notin DOMAIN last.pre[last.domain[1]])

C19_RemoveAbsentIsNoOp ==
  DropOfAbsent =>
    /\ domain2opset = last.pre
    /\ last.raised = "none"
    /\ \A v \in QueryVersions :
         (last.op_name # None /\ last.domain \in {None, Some("")}) =>
           get(domain2opset, last.domain, last.op_name[1], v)
             = get(last.pre, last.domain, last.op_name[1], v)

\* remove("", "Relu") with Relu under the default domain: still found
C19_Witness ==
  /\ DropOfAbsent
  /\ last.domain = Some("") /\ last.op_name = Some("Relu")
  /\ HasEntry(last.pre, "ai.onnx", "Relu")
  /\ get(domain2opset, Some(""), "Relu", None).pack # None

(***************************************************************************)
(* C16: once a node has aliased its first output to its first input, every *)
(* later reference to that output, as an input of a later node against the *)
(* same ledger, is the reference of the node's first input; this holds     *)
(* along chains: every tensor of a chain resolves to the canonical name of *)
(* the first input of the chain.                                           *)
(***************************************************************************)
\* the nodes generated so far whose first output helper has remapped
AliasedIn(helper, n) ==
  /\ n < pos
  /\ graph[n].output[1] \in DOMAIN helper.tensor_name_mapping

\* the tensor a chain of aliases starts from
RECURSIVE ChainRoot(_, _)
ChainRoot(helper, t) ==
  IF \E n \in 1 .. Len(graph) : AliasedIn(helper, n) /\ graph[n].output[1] = t
  THEN ChainRoot(helper,
         graph[CHOOSE n \in 1 .. Len(graph) :
                 AliasedIn(helper, n) /\ graph[n].output[1] = t].input[1])
  ELSE t

C16_AliasPropagates ==
  /\ \A t \in DOMAIN gen_last.pre.tensor_name_mapping :
       /\ t \in DOMAIN rename_helper.tensor_name_mapping
       /\ rename_helper.tensor_name_mapping[t] = gen_last.pre.tensor_name_mapping[t]
  /\ \A n \in 1 .. Len(graph) :
       AliasedIn(rename_helper, n) =>
         /\ get_tensor_name(rename_helper, graph[n].output[1])
              = get_tensor_name(rename_helper, graph[n].input[1])
         /\ get_tensor_name(rename_helper, graph[n].output[1])
              = OwnName(ChainRoot(rename_helper, graph[n].output[1]))
  /\ gen_last.node >= 1 =>
       \A i \in DOMAIN graph[gen_last.node].input, n \in 1 .. gen_last.node - 1 :
         (/\ AliasedIn(gen_last.pre, n)
          /\ graph[gen_last.node].input[i] = graph[n].output[1]) =>
           /\ gen_last.inputs_str[i]
                = Format(graph[n].input[1], InitializerNames,
                         get_tensor_name(gen_last.pre, graph[n].input[1]))
           /\ gen_last.inputs_str[i]
                = OwnName(ChainRoot(gen_last.pre, graph[n].output[1]))

\* a chain of two: the second node reads the alias the first one made and
\* aliases its own output to it
C16_Witness ==
  /\ gen_last.node = 2
  /\ AliasedIn(gen_last.pre, 1)
  /\ graph[2].input[1] = graph[1].output[1]
  /\ gen_last.inputs_str[1] = OwnName(graph[1].input[1])
  /\ AliasedIn(rename_helper, 2)
  /\ ChainRoot(rename_helper, graph[2].output[1]) = graph[1].input[1]
  /\ get_tensor_name(rename_helper, graph[2].output[1]) = OwnName(graph[1].input[1])

(***************************************************************************)
(* C20: reference_expressions changes no usage count and writes the        *)
(* mapping of at most one tensor per call, the first output of the node,   *)
(* and only when the alias rule fires; the input references are the same   *)
(* with aliasing enabled or disabled; a second call for the same node      *)
(* against the ledger the first one left returns the same references and   *)
(* leaves the same ledger.                                                 *)
(***************************************************************************)
\* the call of gen_last made once more, against ledger helper
Again(helper, tensor_inplace) ==
  gen_input_output_string(graph[gen_last.node], InitializerNames, helper,
                          tensor_inplace, None, None)

C20_LedgerWrites ==
  gen_last.node >= 1 =>
    LET node == graph[gen_last.node]
        pre  == gen_last.pre
    IN /\ rename_helper.tensor_name_counter = pre.tensor_name_counter
       /\ DOMAIN rename_helper.tensor_name_mapping
            \subseteq DOMAIN pre.tensor_name_mapping \cup {node.output[1]}
       /\ \A t \in DOMAIN pre.tensor_name_mapping \ {node.output[1]} :
            /\ t \in DOMAIN rename_helper.tensor_name_mapping
            /\ rename_helper.tensor_name_mapping[t] = pre.tensor_name_mapping[t]
       /\ rename_helper # pre =>
            InplaceCondition(node, InitializerNames, pre, gen_last.tensor_inplace)
       /\ Again(pre, TRUE).inputs_str = gen_last.inputs_str
       /\ Again(pre, FALSE).inputs_str = gen_last.inputs_str
       /\ Again(rename_helper, gen_last.tensor_inplace).inputs_str = gen_last.inputs_str
       /\ Again(rename_helper, gen_last.tensor_inplace).outputs_str = gen_last.outputs_str
       /\ Again(rename_helper, gen_last.tensor_inplace).rename_helper = rename_helper

\* a node with two outputs whose first output was remapped
C20_Witness ==
  /\ gen_last.node >= 1
  /\ Len(graph[gen_last.node].output) = 2
  /\ gen_last.tensor_inplace
  /\ rename_helper # gen_last.pre
  /\ DOMAIN rename_helper.tensor_name_mapping
       = DOMAIN gen_last.pre.tensor_name_mapping \cup {graph[gen_last.node].output[1]}

====
